---- MODULE Spec2Model ----
(***************************************************************************)
(* Model of the imengine graph execution engine: Graph (add_node,          *)
(* add_edge, invoke, _get_route), Memory and the Agent/OpenAIAgent invoke   *)
(* path.  Text is modelled character by character (a string is a sequence   *)
(* of one-character strings) so that the routing regular expression and the *)
(* command removal are computed, not assumed.                               *)
(***************************************************************************)
EXTENDS Integers, Sequences, FiniteSets, TLC

VARIABLES
    edges,          \* Graph.edges: registered node -> list of destinations
    last,           \* outcome of the latest add_node / add_edge call
    ncalls,         \* number of add_node / add_edge calls made
    script,         \* the caller's construction script (Spec)
    ip,             \* next call of the script
    name,           \* Agent.name of every agent object
    shared_memory,  \* Agent.shared_memory of every agent object
    messages,       \* Agent.messages: the private history of every agent
    pc,             \* "idle" or "loop": position of Graph.invoke
    curr_node,      \* Graph.invoke local curr_node
    prompt,         \* Graph.invoke local prompt
    author,         \* Graph.invoke local author
    global_memory,  \* Graph.invoke local global_memory (Memory.memory)
    show_thinking,  \* Graph.invoke argument show_thinking
    patched,        \* agents whose client.invoke is replaced by a test double
    result,         \* how the latest Graph.invoke ended
    calls,          \* log of the node invocations of the current run
    hops,           \* log of the hops recorded in memory, by node object
    nsteps,         \* node invocations made so far (all runs)
    nruns,          \* Graph.invoke calls made so far
    direct,         \* outcome of the latest Agent.invoke made by the caller
    held,           \* a Memory object the caller holds, with its add calls
    query,          \* outcome of the latest get / get_formatted on it
    route           \* outcome of the latest _get_route made by the caller

vars == <<edges, last, ncalls, script, ip, name, shared_memory, messages, pc,
          curr_node, prompt, author, global_memory, show_thinking, patched,
          result, calls, hops, nsteps, nruns, direct, held, query, route>>

buildVars == <<edges, last, ncalls>>
agentVars == <<name, shared_memory, messages>>
callerVars == <<direct, held, query, route>>
runVars == <<pc, curr_node, prompt, author, global_memory, show_thinking,
             patched, result, calls, hops, nsteps, nruns>>

----------------------------------------------------------------------------
(* Bounds *)

MaxCalls == 4       \* add_node / add_edge calls explored by SpecBuild
MaxSteps == 3       \* node invocations explored by Spec, over all runs
MaxRuns == 2        \* Graph.invoke calls explored by Spec
MaxRecords == 2     \* Memory.add calls the caller makes itself in SpecMemory
MaxDirect == 2      \* Agent.invoke calls the caller makes itself in Spec

----------------------------------------------------------------------------
(* Objects *)

START == "START"
END == "END"
Agents == {"a1", "a2", "a3"}
NonAgent == "junk"
Nodes == {START, END} \cup Agents

\* Variant: anything passes for an Agent
IsAnything(x) == TRUE

\* isinstance(x, Agent)
IsAgent(x) == x \in Agents

----------------------------------------------------------------------------
(* Text *)

BS == "\\"
Delim == <<BS, BS>>
Cmd(n) == Delim \o n \o Delim

NameA == <<"A">>
NameB == <<"B">>
NameC == <<"C">>
ENDLiteral == <<"E", "N", "D">>
SentinelName == <<"<sentinel>">>

NodeName(n) == IF IsAgent(n) THEN name[n] ELSE SentinelName

PrevHeader ==
    <<"\n", "\n", "P", "r", "e", "v", "i", "o", "u", "s", " ", "m", "e", "s",
      "s", "a", "g", "e", "s", ":", " ", "\n">>
Arrow == <<" ", "-", ">", " ">>
Colon == <<":", " ">>
NL == <<"\n">>

DelimAt(s, i) == i >= 1 /\ i + 1 <= Len(s) /\ s[i] = BS /\ s[i + 1] = BS

\* Leftmost occurrence of the literal text l in s, 0 when there is none.
FindFirst(l, s) ==
    LET hits == {i \in 1..(Len(s) - Len(l) + 1) : SubSeq(s, i, i + Len(l) - 1) = l}
    IN  IF hits = {} THEN 0 ELSE CHOOSE i \in hits : \A j \in hits : i <= j

\* re.sub(re.escape(l), '', s, count=1)
RemoveFirst(l, s) ==
    LET i == FindFirst(l, s)
    IN  IF i = 0 THEN s
        ELSE SubSeq(s, 1, i - 1) \o SubSeq(s, i + Len(l), Len(s))

\* re.search(r'(?<=\\\\)(.*?)(?=\\\\)', output, re.DOTALL): the leftmost start
\* preceded by two backslashes from which two backslashes follow somewhere,
\* and from that start the shortest capture.
SearchCommand(output) ==
    LET starts == {p \in 3..(Len(output) + 1) :
                      /\ DelimAt(output, p - 2)
                      /\ \E q \in p..Len(output) : DelimAt(output, q)}
    IN  IF starts = {} THEN [found |-> FALSE, group1 |-> <<>>]
        ELSE LET p == CHOOSE x \in starts : \A y \in starts : x <= y
                 ends == {q \in p..Len(output) : DelimAt(output, q)}
                 q == CHOOSE x \in ends : \A y \in ends : x <= y
             IN  [found |-> TRUE, group1 |-> SubSeq(output, p, q - 1)]

\* Variant: the END command resolved to the first edge
ListIndexFirst(options, x) == 1

\* list.index(x): 0 stands for the ValueError of a missing element
ListIndex(options, x) ==
    LET hits == {i \in 1..Len(options) : options[i] = x}
    IN  IF hits = {} THEN 0 ELSE CHOOSE i \in hits : \A j \in hits : i <= j

\* Variant: the last option whose name is the captured text wins
LastNamed(options, captured) ==
    LET hits == {i \in 1..Len(options) : NodeName(options[i]) = captured}
    IN  IF hits = {} THEN 0 ELSE CHOOSE i \in hits : \A j \in hits : i >= j

\* The for loop of _get_route: first option whose name is the captured text
FirstNamed(options, captured) ==
    LET hits == {i \in 1..Len(options) : NodeName(options[i]) = captured}
    IN  IF hits = {} THEN 0 ELSE CHOOSE i \in hits : \A j \in hits : i <= j

\* Graph._get_route.  i is the 0-based index the code returns.
GetRoute(options, output) ==
    LET m == SearchCommand(output)
        stripped == RemoveFirst(Cmd(m.group1), output)
    IN  IF ~m.found
        THEN [raised |-> FALSE, i |-> 0, output |-> output]
        ELSE IF m.group1 = ENDLiteral
        THEN IF ListIndex(options, END) = 0
             THEN [raised |-> TRUE, i |-> 0, output |-> stripped]
             ELSE [raised |-> FALSE, i |-> ListIndex(options, END) - 1,
                   output |-> stripped]
        ELSE IF FirstNamed(options, m.group1) # 0
        THEN [raised |-> FALSE, i |-> FirstNamed(options, m.group1) - 1,
              output |-> stripped]
        ELSE [raised |-> FALSE, i |-> 0, output |-> stripped]

----------------------------------------------------------------------------
(* Memory *)

\* Variant: one Memory instance kept by the Graph across invoke calls
MemoryKept == global_memory

\* Memory.__init__: self.memory = []
MemoryInit == <<>>

\* Variant: the record is written with its two names exchanged
MemoryAddSwapped(memory, a, recipient, content) ==
    Append(memory, [author |-> IF recipient = END THEN ENDLiteral
                               ELSE NodeName(recipient),
                    recipient |-> NodeName(a),
                    content |-> content])

\* Memory.add(author, recipient, content)
MemoryAdd(memory, a, recipient, content) ==
    Append(memory, [author |-> NodeName(a),
                    recipient |-> IF recipient = END THEN ENDLiteral
                                  ELSE NodeName(recipient),
                    content |-> content])

NamesOf(list) == {name[list[i]] : i \in 1..Len(list)}

\* Variant: a record is kept when either side is a peer
MemoryMatchEither(m, authors, recipients) ==
    m.author \in NamesOf(authors) \/ m.recipient \in NamesOf(recipients)

\* The filter of get_formatted: author and recipient both among the names
MemoryMatch(m, authors, recipients) ==
    m.author \in NamesOf(authors) /\ m.recipient \in NamesOf(recipients)

\* Variant: a line does not name the recipient
FormatRecordShort(m) == m.author \o Colon \o m.content

\* f"{m['author']} -> {m['recipient']}: {m['content']}"
FormatRecord(m) == m.author \o Arrow \o m.recipient \o Colon \o m.content

RECURSIVE JoinLines(_)
JoinLines(lines) ==
    IF lines = <<>> THEN <<>>
    ELSE IF Len(lines) = 1 THEN lines[1]
    ELSE lines[1] \o NL \o JoinLines(Tail(lines))

RECURSIVE FormatAll(_)
FormatAll(records) ==
    IF records = <<>> THEN <<>>
    ELSE <<FormatRecord(Head(records))>> \o FormatAll(Tail(records))

MemoryGetFormatted(memory, authors, recipients) ==
    JoinLines(FormatAll(SelectSeq(memory,
                  LAMBDA m : MemoryMatch(m, authors, recipients))))

\* Memory.get(author, recipient), the arguments being lists of names
MemoryGet(records, authors, recipients) ==
    SelectSeq(records, LAMBDA m : /\ \E i \in 1..Len(authors) : authors[i] = m.author
                                  /\ \E i \in 1..Len(recipients) :
                                        recipients[i] = m.recipient)

\* The caller's Memory(): records is Memory.memory, added the arguments of
\* the add calls that made the records
NoMemory == [records |-> <<>>, added |-> <<>>]
NoQuery ==
    [op |-> "none", author |-> <<>>, recipient |-> <<>>, at |-> 0,
     records |-> <<>>, text |-> <<>>]

Contents == {<<"x">>, <<"y">>}
AddAuthors == Agents
AddRecipients == {"a1", "a2"}
QueryAuthors == {<<"a1">>, <<"a2">>, <<"a1", "a3">>}
QueryRecipients == {<<"a1">>, <<"a2">>, <<"a1", "a2">>}

\* memory.add(a, r, content)
MemoryAddCall(a, r, content) ==
    /\ Len(held.records) < MaxRecords
    /\ held' = [records |-> MemoryAdd(held.records, a, r, content),
                added |-> Append(held.added,
                                 [author |-> a, recipient |-> r])]
    /\ UNCHANGED <<buildVars, script, ip, agentVars, runVars, direct, query,
                   route>>

\* memory.get([a.name for a in authors], [r.name for r in recipients])
MemoryGetCall(authors, recipients) ==
    /\ query' = [op |-> "get", author |-> authors, recipient |-> recipients,
                 at |-> Len(held.records),
                 records |-> MemoryGet(held.records,
                                [i \in 1..Len(authors) |-> name[authors[i]]],
                                [i \in 1..Len(recipients) |->
                                    name[recipients[i]]]),
                 text |-> <<>>]
    /\ UNCHANGED <<buildVars, script, ip, agentVars, runVars, direct, held,
                   route>>

\* memory.get_formatted(authors, recipients)
MemoryGetFormattedCall(authors, recipients) ==
    /\ query' = [op |-> "get_formatted", author |-> authors,
                 recipient |-> recipients, at |-> Len(held.records),
                 records |-> <<>>,
                 text |-> MemoryGetFormatted(held.records, authors,
                                             recipients)]
    /\ UNCHANGED <<buildVars, script, ip, agentVars, runVars, direct, held,
                   route>>

----------------------------------------------------------------------------
(* Graph construction *)

Single(n) == [list |-> FALSE, items |-> <<n>>]
List(s) == [list |-> TRUE, items |-> s]

\* Variant: an existing entry is kept
PutIfAbsent(e, k, v) ==
    [x \in (DOMAIN e) \cup {k} |-> IF x \in DOMAIN e THEN e[x] ELSE v]

\* "self.edges[k] = v"
Put(e, k, v) == [x \in (DOMAIN e) \cup {k} |-> IF x = k THEN v ELSE e[x]]

GraphInit == [n \in {START, END} |-> <<>>]

\* add_node, list branch: register item by item, stop at the first non-Agent
RECURSIVE AddNodeList(_, _)
AddNodeList(e, items) ==
    IF items = <<>> THEN [edges |-> e, err |-> "none"]
    ELSE IF ~IsAgent(Head(items)) THEN [edges |-> e, err |-> "ValueError"]
    ELSE AddNodeList(Put(e, Head(items), <<>>), Tail(items))

\* Variant: a call that raises leaves the mapping as it found it
AddNodeResultAtomic(e, arg) ==
    IF \A i \in 1..Len(arg.items) : IsAgent(arg.items[i])
    THEN AddNodeList(e, arg.items)
    ELSE [edges |-> e, err |-> "ValueError"]

\* add_node(node): a list is registered element by element
AddNodeResult(e, arg) ==
    IF arg.list THEN AddNodeList(e, arg.items)
    ELSE IF IsAgent(arg.items[1])
         THEN [edges |-> Put(e, arg.items[1], <<>>), err |-> "none"]
         ELSE [edges |-> e, err |-> "ValueError"]

\* Variant: no pair is skipped
SamePairNever(n1, n2) == FALSE

\* "if n1 is not n2": the pairs add_edge skips
SamePair(n1, n2) == n1 = n2

\* Variant: every node passes for registered
IsKeyOrAny(e, n) == TRUE

\* "n in self.edges"
IsKey(e, n) == n \in DOMAIN e

\* Variant: the destination is put at the front of the list
ListPrepend(l, x) == <<x>> \o l

\* "self.edges[n1].append(n2)"
ListAppend(l, x) == Append(l, x)

\* add_edge, inner loop over node2 for one n1
RECURSIVE AddEdgeInner(_, _, _)
AddEdgeInner(e, n1, dests) ==
    IF dests = <<>> THEN [edges |-> e, err |-> "none"]
    ELSE IF SamePair(n1, Head(dests)) THEN AddEdgeInner(e, n1, Tail(dests))
    ELSE IF ~IsKey(e, Head(dests)) THEN [edges |-> e, err |-> "ValueError"]
    ELSE AddEdgeInner([e EXCEPT ![n1] = ListAppend(@, Head(dests))],
                      n1, Tail(dests))

\* add_edge, outer loop over node1
RECURSIVE AddEdgeOuter(_, _, _)
AddEdgeOuter(e, srcs, dests) ==
    IF srcs = <<>> THEN [edges |-> e, err |-> "none"]
    ELSE IF ~IsKey(e, Head(srcs)) THEN [edges |-> e, err |-> "ValueError"]
    ELSE LET r == AddEdgeInner(e, Head(srcs), dests)
         IN  IF r.err # "none" THEN r
             ELSE AddEdgeOuter(r.edges, Tail(srcs), dests)

AddEdgeResult(e, node1, node2) == AddEdgeOuter(e, node1.items, node2.items)

AddNode(arg) ==
    /\ pc = "idle"
    /\ LET r == AddNodeResult(edges, arg)
       IN  /\ edges' = r.edges
           /\ last' = [op |-> "add_node", node1 |-> arg, node2 |-> arg,
                       err |-> r.err, before |-> edges]
    /\ ncalls' = ncalls + 1

AddEdge(node1, node2) ==
    /\ pc = "idle"
    /\ LET r == AddEdgeResult(edges, node1, node2)
       IN  /\ edges' = r.edges
           /\ last' = [op |-> "add_edge", node1 |-> node1, node2 |-> node2,
                       err |-> r.err, before |-> edges]
    /\ ncalls' = ncalls + 1

NoCall == [op |-> "none", node1 |-> Single(START), node2 |-> Single(START),
           err |-> "none", before |-> GraphInit]

----------------------------------------------------------------------------
(* Agents *)

\* Variant: one more role is accepted
RolesWider ==
    {"system", "assistant", "user", "function", "tool", "developer",
     "moderator"}

\* The roles the assert of OpenAIAgent.invoke accepts
Roles == {"system", "assistant", "user", "function", "tool", "developer"}

SystemPrompt(a) == <<"sys", a>>
Description(n) ==
    IF n = END
    THEN "The end of the graph, to return the final response to the user."
    ELSE <<"description", n>>
\* Variant: END is shown under the name of its object, like any node
RouteNameRaw(n) == NodeName(n)

\* "agent.name if agent is not END else 'END'"
RouteName(n) == IF n = END THEN ENDLiteral ELSE NodeName(n)

InitialMessages(a) == <<[role |-> "system", content |-> SystemPrompt(a)]>>

\* Python values an argument of invoke can be bound to
PyNone == [kind |-> "none", b |-> FALSE, items |-> <<>>]
PyBool(v) == [kind |-> "bool", b |-> v, items |-> <<>>]
PyList(s) == [kind |-> "list", b |-> FALSE, items |-> s]

\* What the remote model (or a test double standing for it) answers
RemoteFail == <<"<failure>">>
OPlain == <<"h", "i">>
OCmdA == <<"1">> \o Cmd(NameA)
OCmdB == Cmd(NameB) \o <<"2">>
OCmdEnd == <<"3">> \o Cmd(ENDLiteral) \o <<"4">>
OCmdZ == Cmd(<<"Z">>) \o <<"5">>
OTwo == Cmd(NameB) \o <<"6">> \o Cmd(NameA)
Outputs == {OPlain, OCmdA, OCmdB, OCmdEnd, OCmdZ, OTwo}
Replies == Outputs \cup {RemoteFail}

\* Answers given to _get_route directly: up to two commands between short
\* pieces of text
Pieces == {<<>>, <<"x">>}
RouteNames == {NameA, NameB, NameC, ENDLiteral, <<"Z">>}
LaterNames == {NameA, ENDLiteral, <<"Z">>}
RouteTexts ==
    Pieces
      \cup {p \o Cmd(n) \o q : p \in Pieces, q \in Pieces, n \in RouteNames}
      \cup {Cmd(n) \o q \o Cmd(m) \o r :
                q \in Pieces, r \in Pieces, n \in RouteNames,
                m \in LaterNames}
RouteNodes == {"a1", "a2"}

UserPrompts == {<<"q">>}

\* "## Routing Options" / "## Routing Disclosure" of OpenAIAgent.invoke,
\* for a list of at least one destination
RoutingOptions(list) ==
    IF Len(list) > 1
    THEN [kind |-> "options",
          items |-> [i \in 1..Len(list) |->
                        [command |-> Cmd(RouteName(list[i])),
                         description |-> Description(list[i])]]]
    ELSE [kind |-> "disclosure",
          items |-> <<[command |-> RouteName(list[1]),
                       description |-> Description(list[1])]>>]

Raise(a, exc) ==
    [exc |-> exc, value |-> <<>>, messages |-> messages[a], remote |-> FALSE]

\* Variant: False in the place of the edge list fails in another way
BoolAsEdgesSplit(b) == IF b THEN "TypeError" ELSE "IndexError"

\* A bool bound to edges: "len(edges)" for True, "edges[0]" for False
BoolAsEdges(b) == "TypeError"

\* Variant: every invocation starts a new thread after the system message
ThreadRestart(thread, entry) == <<thread[1], entry>>

\* "self.messages.append({...})"
ThreadAppend(thread, entry) == Append(thread, entry)

\* Variant: the entry is written without the chat prompt
PromptEntryBare(a, role, chat_prompt, list) ==
    [role |-> role,
     content |-> [system_prompt |-> SystemPrompt(a),
                  chat_prompt |-> <<>>,
                  routing_options |-> RoutingOptions(list)]]

\* The entry of "self.messages.append({"role": author, "content": ...})"
PromptEntry(a, role, chat_prompt, list) ==
    [role |-> role,
     content |-> [system_prompt |-> SystemPrompt(a),
                  chat_prompt |-> chat_prompt,
                  routing_options |-> RoutingOptions(list)]]

\* OpenAIAgent.invoke(author, chat_prompt, files, edges, show_thinking):
\* files is a list of node objects here (never file paths), edges a Python
\* value, reply the outcome of the remote call if it is reached.
OpenAIAgentInvoke(a, role, chat_prompt, files, edgesArg, reply) ==
    IF role \notin Roles THEN Raise(a, "AssertionError")
    ELSE IF files # <<>> THEN Raise(a, "TypeError")
    ELSE IF edgesArg.kind = "none" THEN Raise(a, "TypeError")
    ELSE IF edgesArg.kind = "bool" THEN Raise(a, BoolAsEdges(edgesArg.b))
    ELSE IF edgesArg.items = <<>> THEN Raise(a, "IndexError")
    ELSE LET entry == PromptEntry(a, role, chat_prompt, edgesArg.items)
             history == ThreadAppend(messages[a], entry)
         IN  IF reply = RemoteFail
             THEN [exc |-> "RemoteError", value |-> <<>>,
                   messages |-> history, remote |-> TRUE]
             ELSE [exc |-> "none", value |-> reply,
                   messages |-> history, remote |-> TRUE]

\* client.invoke replaced by a test double (patch.object(agent.client,
\* "invoke", ...)): it answers or raises and touches nothing
MockInvoke(a, reply) ==
    IF reply = RemoteFail
    THEN [exc |-> "RemoteError", value |-> <<>>, messages |-> messages[a],
          remote |-> FALSE]
    ELSE [exc |-> "none", value |-> reply, messages |-> messages[a],
          remote |-> FALSE]

\* Agent.invoke(author, prompt, files, edges, show_thinking)
AgentInvoke(a, args, reply) ==
    IF a \in patched THEN MockInvoke(a, reply)
    ELSE OpenAIAgentInvoke(a, args.author, args.prompt, args.files,
                           args.edges, reply)

\* The caller's own call node.invoke(role, chat_prompt, [], edgesArg): the
\* arguments, the outcome and the history before the call
NoDirect ==
    [n |-> 0, node |-> "a1", role |-> "user", prompt |-> <<>>,
     edges |-> PyNone, exc |-> "none", value |-> <<>>, remote |-> FALSE, double |-> FALSE,
     before |-> <<>>]

DirectAgents == {"a1", "a2"}
DirectRoles == {"user", "moderator"}
DirectEdges == {PyNone, PyList(<<>>), PyList(<<END>>), PyList(<<"a2", END>>)}
DirectReplies == {OPlain, RemoteFail}

\* A conversation of the caller with its agents, outside any graph
TalkRoles == {"user", "assistant"}
TalkPrompts == {<<"q">>, <<"r">>}
TalkEdges == {PyNone, PyList(<<END>>)}

DirectInvoke(a, role, chat_prompt, edgesArg, reply) ==
    /\ pc = "idle"
    /\ direct.n < MaxDirect
    /\ LET args == [author |-> role, prompt |-> chat_prompt, files |-> <<>>,
                    edges |-> edgesArg, show_thinking |-> FALSE]
           inv == AgentInvoke(a, args, reply)
       IN  /\ messages' = [messages EXCEPT ![a] = inv.messages]
           /\ direct' = [n |-> direct.n + 1, node |-> a, role |-> role,
                         prompt |-> chat_prompt, edges |-> edgesArg, exc |-> inv.exc,
                         value |-> inv.value, remote |-> inv.remote,
                         double |-> a \in patched, before |-> messages[a]]
    /\ UNCHANGED <<buildVars, script, ip, name, shared_memory, runVars,
                   held, query, route>>

----------------------------------------------------------------------------
(* Graph.invoke *)

NoResult == [kind |-> "none", value |-> <<>>, exc |-> "none"]
Returned(v) == [kind |-> "return", value |-> v, exc |-> "none"]
ReturnedNone == [kind |-> "return_none", value |-> <<>>, exc |-> "none"]

\* Variant: an exception is swallowed and an empty result returned
RaisedSwallowed(exc) == [kind |-> "return", value |-> <<>>, exc |-> "none"]

\* An exception leaving Graph.invoke (nothing in it catches one)
Raised(exc) == [kind |-> "raise", value |-> <<>>, exc |-> exc]

\* curr_node.invoke(author, prompt, self.edges[curr_node], show_thinking)
\* against the signature invoke(author, prompt, files, edges, show_thinking)
GraphCallArgs(role, text, options, thinking) ==
    [author |-> role, prompt |-> text, files |-> options,
     edges |-> PyBool(thinking), show_thinking |-> FALSE]

\* Variant: the destinations are counted, each one once
EdgeCountDistinct(options) ==
    Cardinality({options[i] : i \in 1..Len(options)})

\* "len(self.edges[curr_node])"
EdgeCount(options) == Len(options)

\* Variant: the output of every node with an outgoing edge is scanned
NeedsRouteAlways(options) == Len(options) > 0

\* "if len(self.edges[curr_node]) > 1"
NeedsRoute(options) == EdgeCount(options) > 1

\* Variant: the walk stops at a node it has already invoked in this run
WhileTestOnce(node) ==
    node # END /\ \A k \in 1..Len(calls) : calls[k].node # node

\* "while curr_node != END"
WhileTest(node) == node # END

\* Variant: the transcript is appended for every node, peers or not
WithSharedMemoryAlways(text, memory, peers) ==
    text \o PrevHeader \o MemoryGetFormatted(memory, peers, peers)

\* "if curr_node.shared_memory: prompt += ..."
WithSharedMemory(text, memory, peers) ==
    IF peers # <<>>
    THEN text \o PrevHeader \o MemoryGetFormatted(memory, peers, peers)
    ELSE text

\* Lines 123-126: the index of the edge to follow and the text to pass on
Resolve(options, output) ==
    IF NeedsRoute(options) THEN GetRoute(options, output)
    ELSE [raised |-> FALSE, i |-> 0, output |-> output]

Finish(res) ==
    /\ pc' = "idle"
    /\ result' = res
    /\ UNCHANGED <<curr_node, prompt, author, global_memory, hops>>

\* Variant: the answer of a node without outgoing edge is returned
DeadEndReturns(output) == Returned(output)

\* "self.edges[curr_node][i]" on an empty list
DeadEnd(output) == Raised("IndexError")

\* Variant: the walk begins at the destination START was given last
StartNodeLast(e) == e[START][Len(e[START])]

\* "curr_node = self.edges[START][0]"
StartNode(e) == e[START][1]

\* Lines 104-115 of Graph.invoke, up to the first test of the while loop
InvokeBegin(user_prompt, thinking, doubles) ==
    /\ pc = "idle"
    /\ nruns < MaxRuns
    /\ nsteps < MaxSteps
    /\ nruns' = nruns + 1
    /\ show_thinking' = thinking
    /\ patched' = doubles
    /\ calls' = <<>>
    /\ UNCHANGED <<buildVars, script, ip, agentVars, nsteps, callerVars>>
    /\ IF Cardinality(DOMAIN edges) = 2
       THEN /\ pc' = "idle"
            /\ result' = Raised("UnboundLocalError")
            /\ UNCHANGED <<curr_node, prompt, author, global_memory, hops>>
       ELSE IF edges[START] = <<>>
       THEN /\ pc' = "idle"
            /\ result' = Raised("IndexError")
            /\ global_memory' = MemoryInit
            /\ hops' = <<>>
            /\ UNCHANGED <<curr_node, prompt, author>>
       ELSE /\ global_memory' = MemoryInit
            /\ hops' = <<>>
            /\ curr_node' = StartNode(edges)
            /\ prompt' = user_prompt
            /\ author' = "user"
            /\ IF WhileTest(StartNode(edges))
               THEN pc' = "loop" /\ result' = NoResult
               ELSE pc' = "idle" /\ result' = ReturnedNone

\* Variant: the invocation writes the invoked node's history to every node
HistoryAfterAll(node, thread) == [a \in Agents |-> thread]

\* The histories after curr_node.invoke: only the invoked node's own list
\* is written ("self.messages.append" in its invoke)
HistoryAfter(node, thread) == [messages EXCEPT ![node] = thread]

\* One iteration of the while loop (lines 116-138); reply is what the remote
\* model answers if the node's invoke gets as far as asking it.
InvokeStep(reply) ==
    /\ pc = "loop"
    /\ nsteps < MaxSteps
    /\ nsteps' = nsteps + 1
    /\ UNCHANGED <<buildVars, script, ip, name, shared_memory, show_thinking,
                   patched, nruns, callerVars>>
    /\ IF ~IsAgent(curr_node)
       THEN /\ Finish(Raised("AttributeError"))
            /\ UNCHANGED <<messages, calls>>
       ELSE
       LET options == edges[curr_node]
           text == WithSharedMemory(prompt, global_memory,
                                    shared_memory[curr_node])
           args == GraphCallArgs(author, text, options, show_thinking)
           inv == AgentInvoke(curr_node, args, reply)
           r == Resolve(options, inv.value)
       IN  /\ messages' = HistoryAfter(curr_node, inv.messages)
           /\ calls' = Append(calls, [node |-> curr_node, args |-> args,
                                      exc |-> inv.exc, value |-> inv.value,
                                      remote |-> inv.remote])
           /\ IF inv.exc # "none" THEN Finish(Raised(inv.exc))
              ELSE IF r.raised THEN Finish(Raised("ValueError"))
              ELSE IF r.i + 1 > Len(options) THEN Finish(DeadEnd(r.output))
              ELSE IF options[r.i + 1] = END THEN Finish(Returned(r.output))
              ELSE /\ global_memory' = MemoryAdd(global_memory, curr_node,
                                                 options[r.i + 1], r.output)
                   /\ hops' = Append(hops, [author |-> curr_node,
                                            recipient |-> options[r.i + 1],
                                            content |-> r.output])
                   /\ curr_node' = options[r.i + 1]
                   /\ prompt' = r.output
                   /\ author' = "user"
                   /\ IF WhileTest(options[r.i + 1])
                      THEN pc' = "loop" /\ result' = NoResult
                      ELSE pc' = "idle" /\ result' = ReturnedNone

\* The caller's own call graph._get_route(node, output)
NoRoute ==
    [n |-> 0, node |-> START, options |-> <<>>, given |-> <<>>,
     raised |-> FALSE, i |-> 0, output |-> <<>>]

GetRouteCall(node, output) ==
    /\ pc = "idle"
    /\ node \in DOMAIN edges
    /\ LET r == GetRoute(edges[node], output)
       IN  route' = [n |-> 1, node |-> node, options |-> edges[node],
                     given |-> output, raised |-> r.raised, i |-> r.i,
                     output |-> r.output]
    /\ UNCHANGED <<buildVars, script, ip, agentVars, runVars, direct, held,
                   query>>

----------------------------------------------------------------------------
(* Callers *)

NodeCall(arg) == [op |-> "add_node", node1 |-> arg, node2 |-> arg]
EdgeCall(n1, n2) == [op |-> "add_edge", node1 |-> n1, node2 |-> n2]

\* tests/features/test_agent_interaction.py, test_multi_step_reasoning
ScriptReasoner ==
    <<NodeCall(Single("a1")),
      EdgeCall(Single(START), Single("a1")),
      EdgeCall(Single("a1"), Single("a1")),
      EdgeCall(Single("a1"), Single(END))>>

\* tests/features/test_agent_interaction.py, test_multi_agent_collaboration
ScriptCollab ==
    <<NodeCall(Single("a2")), NodeCall(Single("a3")), NodeCall(Single("a1")),
      EdgeCall(Single(START), Single("a1")),
      EdgeCall(Single("a1"), Single("a2")),
      EdgeCall(Single("a1"), Single("a3")),
      EdgeCall(Single("a1"), Single(END)),
      EdgeCall(Single("a2"), Single("a1")),
      EdgeCall(Single("a3"), Single("a1"))>>

\* examples/dynamic_delegation, create_expert_team (one expert)
ScriptTeam ==
    <<NodeCall(Single("a1")), NodeCall(List(<<"a2">>)), NodeCall(Single("a3")),
      EdgeCall(Single(START), Single("a1")),
      EdgeCall(Single("a1"), List(<<"a2">>)),
      EdgeCall(List(<<"a2">>), Single("a3")),
      EdgeCall(Single("a3"), Single(END))>>

\* examples/mixture_of_experts (two experts, no summarizer)
ScriptExperts ==
    <<NodeCall(Single("a1")), NodeCall(List(<<"a2", "a3">>)),
      EdgeCall(Single(START), Single("a1")),
      EdgeCall(Single("a1"), List(<<"a2", "a3">>)),
      EdgeCall(List(<<"a2", "a3">>), Single(END))>>

\* A caller that wires START to END past the one node it registers, then
\* puts the node behind that edge
ScriptBypass ==
    <<NodeCall(Single("a1")),
      EdgeCall(Single(START), Single(END)),
      EdgeCall(Single(START), Single("a1")),
      EdgeCall(Single("a1"), Single(END))>>

\* A caller that gives START two destinations in one call
ScriptFork ==
    <<NodeCall(List(<<"a1", "a2">>)),
      EdgeCall(Single(START), List(<<"a1", "a2">>)),
      EdgeCall(List(<<"a1", "a2">>), Single(END))>>

\* A caller that makes the call add_edge(a1, a2) twice
ScriptTwice ==
    <<NodeCall(List(<<"a1", "a2">>)),
      EdgeCall(Single(START), Single("a1")),
      EdgeCall(Single("a1"), Single("a2")),
      EdgeCall(Single("a1"), Single("a2")),
      EdgeCall(Single("a2"), Single(END))>>

Scripts ==
    {ScriptReasoner, ScriptCollab, ScriptTeam, ScriptExperts, ScriptBypass,
     ScriptFork, ScriptTwice}

\* The agent objects the callers construct: names and shared_memory lists
PoolTeam ==
    [name |-> [a \in Agents |-> IF a = "a1" THEN NameA
                                ELSE IF a = "a2" THEN NameB ELSE NameC],
     shared_memory |-> [a \in Agents |-> IF a = "a3" THEN <<"a1", "a2">>
                                         ELSE <<>>]]
PoolSameName ==
    [name |-> [a \in Agents |-> IF a = "a1" THEN NameA ELSE NameB],
     shared_memory |-> [a \in Agents |-> IF a = "a3" THEN <<"a1", "a2">>
                                         ELSE <<>>]]
PoolTalk ==
    [name |-> [a \in Agents |-> IF a = "a1" THEN NameA
                                ELSE IF a = "a2" THEN NameB ELSE NameC],
     shared_memory |-> [a \in Agents |-> IF a = "a1" THEN <<"a1", "a2">>
                                         ELSE <<>>]]
Pools == {PoolTeam, PoolSameName, PoolTalk}

PatchSets == {{}, Agents}

\* Arguments SpecBuild passes to add_node and add_edge
NodeArgs ==
    {Single("a1"), Single("a2"), Single(NonAgent),
     List(<<"a1", "a2">>), List(<<"a1", NonAgent, "a2">>)}
EdgeArgs ==
    {Single(START), Single(END), Single("a1"), Single("a2"), Single("a3"),
     List(<<"a1", "a2">>), List(<<"a2", "a3">>), List(<<"a2", END>>)}

----------------------------------------------------------------------------
(* Specifications *)

InitCommon ==
    /\ edges = GraphInit
    /\ last = NoCall
    /\ ncalls = 0
    /\ ip = 1
    /\ pc = "idle"
    /\ curr_node = START
    /\ prompt = <<>>
    /\ author = "user"
    /\ global_memory = <<>>
    /\ show_thinking = FALSE
    /\ patched = {}
    /\ result = NoResult
    /\ calls = <<>>
    /\ hops = <<>>
    /\ nsteps = 0
    /\ nruns = 0
    /\ messages = [a \in Agents |-> InitialMessages(a)]
    /\ direct = NoDirect
    /\ held = NoMemory
    /\ query = NoQuery
    /\ route = NoRoute

Init ==
    /\ InitCommon
    /\ script \in Scripts
    /\ \E pool \in Pools : name = pool.name /\ shared_memory = pool.shared_memory

InitBuild ==
    /\ InitCommon
    /\ script = <<>>
    /\ name = PoolTeam.name
    /\ shared_memory = PoolTeam.shared_memory

\* The caller makes the next call of its script
ScriptAddNode ==
    /\ ip <= Len(script)
    /\ script[ip].op = "add_node"
    /\ AddNode(script[ip].node1)
    /\ ip' = ip + 1
    /\ UNCHANGED <<script, agentVars, runVars, callerVars>>

ScriptAddEdge ==
    /\ ip <= Len(script)
    /\ script[ip].op = "add_edge"
    /\ AddEdge(script[ip].node1, script[ip].node2)
    /\ ip' = ip + 1
    /\ UNCHANGED <<script, agentVars, runVars, callerVars>>

Begin ==
    \E p \in UserPrompts, t \in BOOLEAN, d \in PatchSets : InvokeBegin(p, t, d)

Step == \E reply \in Replies : InvokeStep(reply)

Next == ScriptAddNode \/ ScriptAddEdge \/ Begin \/ Step

Spec == Init /\ [][Next]_vars

\* A caller that also invokes agents itself, between the runs of its graph
InitAgent ==
    /\ InitCommon
    /\ script = ScriptReasoner
    /\ name = PoolTeam.name
    /\ shared_memory = PoolTeam.shared_memory

Direct ==
    \E a \in DirectAgents, role \in DirectRoles, p \in UserPrompts,
       e \in DirectEdges, reply \in DirectReplies :
          DirectInvoke(a, role, p, e, reply)

NextAgent == ScriptAddNode \/ ScriptAddEdge \/ Begin \/ Step \/ Direct

SpecAgent == InitAgent /\ [][NextAgent]_vars

\* A caller that talks to its agents without building a graph
InitTalk ==
    /\ InitCommon
    /\ script = <<>>
    /\ name = PoolTeam.name
    /\ shared_memory = PoolTeam.shared_memory

Talk ==
    \E a \in DirectAgents, role \in TalkRoles, p \in TalkPrompts,
       e \in TalkEdges, reply \in DirectReplies :
          DirectInvoke(a, role, p, e, reply)

NextTalk == Talk

SpecTalk == InitTalk /\ [][NextTalk]_vars

\* A caller that uses a Memory object of its own
InitMemory ==
    /\ InitCommon
    /\ script = <<>>
    /\ \E pool \in {PoolTeam, PoolSameName} :
          name = pool.name /\ shared_memory = pool.shared_memory

CallAdd ==
    \E a \in AddAuthors, r \in AddRecipients, c \in Contents :
       MemoryAddCall(a, r, c)

CallGet ==
    \E a \in QueryAuthors, r \in QueryRecipients : MemoryGetCall(a, r)

CallGetFormatted ==
    \E a \in QueryAuthors, r \in QueryRecipients :
       MemoryGetFormattedCall(a, r)

NextMemory == CallAdd \/ CallGet \/ CallGetFormatted

SpecMemory == InitMemory /\ [][NextMemory]_vars

\* A caller that builds a graph and asks it for routes itself
InitRoute ==
    /\ InitCommon
    /\ script = ScriptCollab
    /\ name = PoolTeam.name
    /\ shared_memory = PoolTeam.shared_memory

CallGetRoute ==
    \E node \in RouteNodes, output \in RouteTexts : GetRouteCall(node, output)

NextRoute == ScriptAddNode \/ ScriptAddEdge \/ CallGetRoute

SpecRoute == InitRoute /\ [][NextRoute]_vars

\* Any caller: every add_node / add_edge call with arguments of the sets above
FreeAddNode ==
    /\ ncalls < MaxCalls
    /\ \E arg \in NodeArgs : AddNode(arg)
    /\ UNCHANGED <<script, ip, agentVars, runVars, callerVars>>

FreeAddEdge ==
    /\ ncalls < MaxCalls
    /\ \E n1 \in EdgeArgs, n2 \in EdgeArgs : AddEdge(n1, n2)
    /\ UNCHANGED <<script, ip, agentVars, runVars, callerVars>>

NextBuild == FreeAddNode \/ FreeAddEdge

SpecBuild == InitBuild /\ [][NextBuild]_vars

----------------------------------------------------------------------------
(* Vocabulary of the properties *)

NoBackslash(s) == \A i \in 1..Len(s) : s[i] # BS

\* Positions at which o reads: text without backslash, \\n\\, rest
FirstSplits(o, n) ==
    {i \in 0..(Len(o) - Len(Cmd(n))) :
        /\ SubSeq(o, i + 1, i + Len(Cmd(n))) = Cmd(n)
        /\ NoBackslash(SubSeq(o, 1, i))}

\* The first delimited command of o is \\n\\
FirstCommandIs(o, n) == NoBackslash(n) /\ FirstSplits(o, n) # {}

\* o contains the single delimited command \\n\\ and no other backslash
OnlyCommand(o, n) ==
    /\ NoBackslash(n)
    /\ \E i \in FirstSplits(o, n) :
          NoBackslash(SubSeq(o, i + Len(Cmd(n)) + 1, Len(o)))

\* o with its first command \\n\\ cut out
Without(o, n) ==
    LET i == CHOOSE x \in FirstSplits(o, n) : TRUE
    IN  SubSeq(o, 1, i) \o SubSeq(o, i + Len(Cmd(n)) + 1, Len(o))

CommandNames == {NameA, NameB, NameC, ENDLiteral, <<"Z">>}
CommandNameOf(n) == IF n = END THEN ENDLiteral ELSE name[n]

Range(list) == {list[i] : i \in 1..Len(list)}

\* This step invoked the current node and the node answered
NodeAnswered ==
    /\ pc = "loop"
    /\ IsAgent(curr_node)
    /\ Len(calls') = Len(calls) + 1
    /\ calls'[Len(calls')].exc = "none"

\* This step followed the edge to nxt, passing on (or returning) text
Advanced(nxt, text) ==
    IF nxt = END
    THEN pc' = "idle" /\ result' = Returned(text)
    ELSE pc' = "loop" /\ curr_node' = nxt /\ prompt' = text

----------------------------------------------------------------------------
(* Properties *)

\* C1: at a node with exactly one outgoing edge that edge is taken and the
\* node's answer is passed on, or returned when the edge leads to END,
\* unmodified, whatever delimited command it contains.
C1_SingleEdgeRaw ==
    [][(NodeAnswered /\ Len(edges[curr_node]) = 1)
          => Advanced(edges[curr_node][1], calls'[Len(calls')].value)]_vars

\* START -> a1 -> END returned a1's answer, command included
C1_Witness ==
    /\ pc = "idle"
    /\ "a1" \in DOMAIN edges
    /\ edges[START] = <<"a1">>
    /\ edges["a1"] = <<END>>
    /\ Len(calls) = 1
    /\ calls[1].value = OCmdA
    /\ result = Returned(OCmdA)

\* C2: at a node with two or more outgoing edges whose answer contains
\* exactly one delimited command naming a destination, the walk goes to the
\* first destination of that name in registration order and passes on the
\* answer with that delimited substring removed.
C2_RouteToFirstNamed ==
    [][\A n \in CommandNames :
          (/\ NodeAnswered
           /\ Len(edges[curr_node]) >= 2
           /\ OnlyCommand(calls'[Len(calls')].value, n)
           /\ \E j \in 1..Len(edges[curr_node]) :
                 CommandNameOf(edges[curr_node][j]) = n)
          => LET options == edges[curr_node]
                 j == CHOOSE x \in 1..Len(options) :
                         /\ CommandNameOf(options[x]) = n
                         /\ \A y \in 1..(x - 1) : CommandNameOf(options[y]) # n
             IN  Advanced(options[j], Without(calls'[Len(calls')].value, n))]_vars

\* a1 -> [a2, a3, ...] with a2 and a3 both named B: the command B led to a2
C2_Witness ==
    /\ pc = "loop"
    /\ name["a2"] = NameB
    /\ name["a3"] = NameB
    /\ Len(calls) = 1
    /\ calls[1].node = "a1"
    /\ Len(calls[1].args.files) >= 2
    /\ calls[1].value = OCmdB
    /\ curr_node = "a2"
    /\ prompt = <<"2">>

\* C3: when a node with two or more outgoing edges, END among them, answers
\* with the END command, Graph.invoke returns at that step with the command
\* removed, without invoking another node or adding a memory record.
C3_EndCommandReturns ==
    [][(/\ NodeAnswered
        /\ Len(edges[curr_node]) >= 2
        /\ END \in Range(edges[curr_node])
        /\ FirstCommandIs(calls'[Len(calls')].value, ENDLiteral))
          => /\ pc' = "idle"
             /\ result' = Returned(Without(calls'[Len(calls')].value, ENDLiteral))
             /\ global_memory' = global_memory]_vars

\* The third node invocation of a run answered END and the run returned with
\* the two earlier hops in memory
C3_Witness ==
    /\ pc = "idle"
    /\ Len(calls) = 3
    /\ calls[3].value = OCmdEnd
    /\ Len(calls[3].args.files) >= 2
    /\ result = Returned(<<"3", "4">>)
    /\ Len(global_memory) = 2

\* C4: a node with two or more outgoing edges whose answer contains no
\* command naming one of its destinations is followed by its first-registered
\* edge, and nothing is raised.
C4_NoMatchTakesFirstEdge ==
    [][(/\ NodeAnswered
        /\ Len(edges[curr_node]) >= 2
        /\ \A j \in 1..Len(edges[curr_node]) :
              FindFirst(Cmd(CommandNameOf(edges[curr_node][j])),
                        calls'[Len(calls')].value) = 0)
          => IF edges[curr_node][1] = END
             THEN pc' = "idle" /\ result'.kind = "return"
             ELSE pc' = "loop" /\ curr_node' = edges[curr_node][1]]_vars

\* C5: route resolution never raises: after any answer of a node with two or
\* more outgoing edges the walk follows one of that node's edges.
C5_RouteNeverFatal ==
    [][(NodeAnswered /\ Len(edges[curr_node]) >= 2)
          => \/ pc' = "idle" /\ result'.kind = "return"
                             /\ END \in Range(edges[curr_node])
             \/ pc' = "loop" /\ curr_node' \in Range(edges[curr_node])]_vars

\* C6: on the graph built by add_node(r), add_edge(START, r), add_edge(r, r),
\* add_edge(r, END), a run whose first answer names r invokes r a second
\* time, and returns when that second answer names END.
C6_SelfRouteInvokesTwice ==
    (/\ script = ScriptReasoner
     /\ ip > Len(script)
     /\ pc = "idle"
     /\ result.kind = "return"
     /\ calls # <<>>
     /\ OnlyCommand(calls[1].value, name["a1"]))
        => /\ Len(calls) = 2
           /\ calls[2].node = "a1"
           /\ OnlyCommand(calls[2].value, ENDLiteral)

C8_UnregisteredLeavesEdges ==
    (/\ last.op = "add_edge"
     /\ ~(Range(last.node1.items) \cup Range(last.node2.items)
            \subseteq DOMAIN last.before))
        => /\ last.err = "ValueError"
           /\ edges = last.before

----------------------------------------------------------------------------
(* Shared memory *)

PeerNames(peers) == {name[x] : x \in Range(peers)}

\* The chat prompt of the k-th node invocation before anything is appended
PromptBase(k) == IF k = 1 THEN CHOOSE p \in UserPrompts : TRUE
                 ELSE hops[k - 1].content

RenderHop(h) ==
    name[h.author] \o Arrow \o CommandNameOf(h.recipient) \o Colon \o h.content

RECURSIVE RenderHops(_)
RenderHops(hs) ==
    IF hs = <<>> THEN <<>>
    ELSE IF Len(hs) = 1 THEN RenderHop(hs[1])
    ELSE RenderHops(SubSeq(hs, 1, Len(hs) - 1)) \o NL \o RenderHop(hs[Len(hs)])

\* What follows the chat prompt and the "Previous messages" header
TranscriptPart(k) ==
    SubSeq(calls[k].args.prompt,
           Len(PromptBase(k)) + Len(PrevHeader) + 1,
           Len(calls[k].args.prompt))

C10_SynthesizerSeesExperts ==
    \A k \in 1..Len(calls) :
        LET s == calls[k].node
            peers == shared_memory[s]
            routers == {n \in Agents \cap DOMAIN edges : s \in Range(edges[n])}
        IN  (/\ peers # <<>>
             /\ s \notin Range(peers)
             /\ routers # {}
             /\ routers \subseteq Range(peers))
            => \A j \in 1..(k - 1) :
                  hops[j].author \in Range(peers)
                     => FindFirst(hops[j].content, TranscriptPart(k)) # 0

----------------------------------------------------------------------------
(* Degenerate graphs, termination, failures *)

\* This step is a call of Graph.invoke
InvokeCalled == nruns' = nruns + 1

\* C11: Graph.invoke on a graph whose only registered nodes are START and
\* END returns the user prompt unchanged and does not fail.
C11_EmptyGraphReturnsPrompt ==
    [][(InvokeCalled /\ DOMAIN edges = {START, END})
          => /\ pc' = "idle"
             /\ \E p \in UserPrompts : result' = Returned(p)]_vars

Successors(n) == IF n \in DOMAIN edges THEN Range(edges[n]) ELSE {}

RECURSIVE ReachN(_, _)
ReachN(S, k) ==
    IF k = 0 THEN S
    ELSE ReachN(S \cup UNION {Successors(n) : n \in S}, k - 1)

\* The nodes reachable from the nodes of S along edges, S included
Reach(S) == ReachN(S, Cardinality(Nodes))

OnCycle(n) == n \in Reach(Successors(n))

\* START's first edge leads to an agent, no cycle is reachable from it and
\* every reachable agent has an outgoing edge
TerminatingGraph ==
    /\ edges[START] # <<>>
    /\ IsAgent(edges[START][1])
    /\ \A n \in Reach({edges[START][1]}) :
          /\ ~OnCycle(n)
          /\ IsAgent(n) => (n \in DOMAIN edges /\ edges[n] # <<>>)

\* C12: on such a graph a run in which every invoked node answers goes on
\* without raising until it returns, and invokes no agent twice (so it
\* returns after at most as many invocations as there are agents).
C12_AcyclicRunReturns ==
    [][(NodeAnswered /\ TerminatingGraph)
          => /\ result'.kind # "raise"
             /\ pc' = "idle" => result'.kind = "return"
             /\ \A k \in 1..Len(calls) : calls[k].node # curr_node]_vars

\* The answer o of a node with the outgoing edges options resolves to END:
\* the only edge leads to END, or the first command of o is the END command,
\* or o names none of the destinations and the first edge leads to END
ResolvesToEnd(options, o) ==
    IF Len(options) = 1 THEN options[1] = END
    ELSE \/ FirstCommandIs(o, ENDLiteral)
         \/ /\ options[1] = END
            /\ \A j \in 1..Len(options) :
                  ~FirstCommandIs(o, CommandNameOf(options[j]))

----------------------------------------------------------------------------
(* Agent.invoke called by the caller *)

\* This step is a call of Agent.invoke made by the caller on the real client
DirectCalled == direct'.n = direct.n + 1 /\ ~direct'.double

\* C14: Agent.invoke with an author role outside system, assistant, user,
\* function, tool, developer raises the invalid-role error before anything
\* else: no history changes and the remote model is not called.
C14_InvalidRoleFirst ==
    [][(DirectCalled
          /\ direct'.role \notin {"system", "assistant", "user", "function",
                                   "tool", "developer"})
          => /\ direct'.exc = "AssertionError"
             /\ ~direct'.remote
             /\ messages' = messages]_vars

\* a1.invoke("moderator", "q", [], [END]) was called and raised; the same
\* call with the role "user" would have reached the remote model
C14_Witness ==
    /\ direct.n = 1
    /\ ~direct.double
    /\ direct.node = "a1"
    /\ direct.role = "moderator"
    /\ direct.edges = PyList(<<END>>)
    /\ direct.exc = "AssertionError"
    /\ messages["a1"] = InitialMessages("a1")

----------------------------------------------------------------------------
(* Failures of the remote call, memory and history over several runs *)

\* C15: when the remote call of a node fails during Graph.invoke the failure
\* leaves Graph.invoke: the run ends at that step with the exception, without
\* a result value, the failing node having been invoked once; no invocation
\* of the run follows a failed one.
C15_RemoteFailurePropagates ==
    /\ [][(/\ pc = "loop"
            /\ Len(calls') = Len(calls) + 1
            /\ calls'[Len(calls')].exc = "RemoteError")
              => /\ pc' = "idle"
                 /\ result'.kind = "raise"
                 /\ result'.exc = "RemoteError"
                 /\ result'.value = <<>>
                 /\ nsteps' = nsteps + 1
                 /\ global_memory' = global_memory]_vars
    /\ [](\A k \in 1..(Len(calls) - 1) : calls[k].exc = "none")
    /\ []((calls # <<>> /\ calls[Len(calls)].exc # "none")
              => (pc = "idle" /\ result.kind = "raise"))

\* The second node of a run failed: the run raised after two invocations and
\* one hop
C15_Witness ==
    /\ pc = "idle"
    /\ Len(calls) = 2
    /\ calls[1].exc = "none"
    /\ calls[2].exc = "RemoteError"
    /\ result.kind = "raise"
    /\ result.exc = "RemoteError"
    /\ Len(global_memory) = 1

\* C16: every call of Graph.invoke starts with an empty memory: the records
\* of the memory are the hops of the current run only, and the transcript
\* given to the first node of a run is empty whatever earlier runs recorded.
C16_MemoryPerRun ==
    /\ [][InvokeCalled => global_memory' = <<>>]_vars
    /\ [](/\ Len(global_memory) = Len(hops)
           /\ \A k \in 1..Len(global_memory) :
                 global_memory[k] =
                    [author |-> name[hops[k].author],
                     recipient |-> CommandNameOf(hops[k].recipient),
                     content |-> hops[k].content])
    /\ []((calls # <<>> /\ shared_memory[calls[1].node] # <<>>)
              => calls[1].args.prompt
                    = (CHOOSE p \in UserPrompts : TRUE) \o PrevHeader)

\* A first run recorded the hop a1 -> a2, both peers of a1; the second run
\* has invoked a1 with an empty transcript
C16_Witness ==
    /\ script = ScriptTeam
    /\ shared_memory["a1"] = <<"a1", "a2">>
    /\ nruns = 2
    /\ nsteps = 3
    /\ Len(calls) = 1
    /\ calls[1].node = "a1"
    /\ calls[1].exc = "none"
    /\ calls[1].args.prompt = <<"q">> \o PrevHeader

IsPrefix(s, t) == Len(s) <= Len(t) /\ SubSeq(t, 1, Len(s)) = s

\* C17: the private history of a node is never reset: every step, a call of
\* Graph.invoke included, leaves every node's history a prefix of what it is
\* afterwards, so the entries appended before a run are still in the history
\* during and after it.
C17_HistoryOnlyGrows ==
    /\ [][\A a \in Agents : IsPrefix(messages[a], messages'[a])]_vars
    /\ [][InvokeCalled => messages' = messages]_vars

\* a1 holds two prompt entries from invocations made before the second run
\* of its graph began; the first run invoked a1 and the second is about to
C17_Witness ==
    /\ nruns = 2
    /\ nsteps = 1
    /\ pc = "loop"
    /\ curr_node = "a1"
    /\ direct.n = 2
    /\ Len(messages["a1"]) = 3
    /\ messages["a1"][2].role = "user"
    /\ messages["a1"][3].role = "user"

----------------------------------------------------------------------------
(* Construction: order of edges, registration *)

\* The destinations a call add_edge(srcs, dests) gives to n, in order
RECURSIVE ProductFor(_, _, _)
ProductFor(n, srcs, dests) ==
    IF srcs = <<>> THEN <<>>
    ELSE (IF Head(srcs) = n THEN SelectSeq(dests, LAMBDA d : d # n) ELSE <<>>)
            \o ProductFor(n, Tail(srcs), dests)

\* C18: add_edge on registered nodes keeps every edge already in a list at
\* its position and appends to each source's list, after them, the given
\* destinations other than the source itself in the order given; the first
\* edge of a list, the one routing falls back to, is the oldest.
C18_AppendInOrder ==
    (/\ last.op = "add_edge"
     /\ Range(last.node1.items) \cup Range(last.node2.items)
            \subseteq DOMAIN last.before)
        => \A n \in DOMAIN last.before :
              /\ n \in DOMAIN edges
              /\ IsPrefix(last.before[n], edges[n])
              /\ SubSeq(edges[n], Len(last.before[n]) + 1, Len(edges[n]))
                    = ProductFor(n, last.node1.items, last.node2.items)
              /\ (last.before[n] # <<>> /\ Len(edges[n]) >= 2)
                    => edges[n][GetRoute(edges[n], OPlain).i + 1]
                          = last.before[n][1]

\* add_edge(a1, [a2, END]) on an a1 that had an edge: a2 and END follow it
C18_Witness ==
    /\ last.op = "add_edge"
    /\ last.node1 = Single("a1")
    /\ last.node2 = List(<<"a2", END>>)
    /\ last.err = "none"
    /\ last.before["a1"] # <<>>
    /\ edges["a1"] = last.before["a1"] \o <<"a2", END>>

\* C19: add_node on agents, registered already or not, leaves each of them
\* registered with an empty outgoing list and changes no other node's list,
\* edges pointing to a re-registered node included; making the same call
\* once more changes nothing.
C19_ReAddResetsOwnList ==
    (/\ last.op = "add_node"
     /\ Range(last.node1.items) \subseteq Agents)
        => /\ last.err = "none"
           /\ DOMAIN edges = DOMAIN last.before \cup Range(last.node1.items)
           /\ \A n \in Range(last.node1.items) : edges[n] = <<>>
           /\ \A m \in DOMAIN last.before \ Range(last.node1.items) :
                 edges[m] = last.before[m]
           /\ AddNodeResult(edges, last.node1) = [edges |-> edges, err |-> "none"]

\* add_node(a1) on a registered a1 that had an edge, a2 having an edge to a1
C19_Witness ==
    /\ last.op = "add_node"
    /\ last.node1 = Single("a1")
    /\ "a1" \in DOMAIN last.before
    /\ last.before["a1"] # <<>>
    /\ "a2" \in DOMAIN last.before
    /\ "a1" \in Range(last.before["a2"])
    /\ edges["a1"] = <<>>
    /\ "a1" \in Range(edges["a2"])

\* The items of a list that precede its first non-agent (all of them when
\* there is none)
RECURSIVE AgentsBefore(_)
AgentsBefore(items) ==
    IF items = <<>> \/ Head(items) \notin Agents THEN {}
    ELSE {Head(items)} \cup AgentsBefore(Tail(items))

\* What add_node leaves registered, whatever the kind of its error
RegistersLeadingAgents ==
    /\ DOMAIN edges = DOMAIN last.before \cup AgentsBefore(last.node1.items)
    /\ \A n \in AgentsBefore(last.node1.items) : edges[n] = <<>>
    /\ \A m \in DOMAIN last.before \ AgentsBefore(last.node1.items) :
          edges[m] = last.before[m]

\* C20: add_node registers each given node with an empty outgoing edge list,
\* and fails with a TypeError when it is passed a non-node or a list
\* containing a non-node.
C20_NonNodeTypeError ==
    last.op = "add_node"
        => IF Range(last.node1.items) \subseteq Agents
           THEN last.err = "none" /\ RegistersLeadingAgents
           ELSE last.err = "TypeError"

\* C20 as amended: the error is a ValueError, and the nodes of a list that
\* precede its first non-node are registered when it is raised.
C20_NonNodeValueError ==
    last.op = "add_node"
        => /\ RegistersLeadingAgents
           /\ last.err = IF Range(last.node1.items) \subseteq Agents
                         THEN "none" ELSE "ValueError"

\* add_node([a1, junk, a2]) on a graph without a1 and a2 raised ValueError
\* with a1 registered and a2 not
C20_Witness ==
    /\ last.op = "add_node"
    /\ last.node1 = List(<<"a1", NonAgent, "a2">>)
    /\ last.err = "ValueError"
    /\ DOMAIN last.before = {START, END}
    /\ DOMAIN edges = {START, END, "a1"}

----------------------------------------------------------------------------
(* Shape of the adjacency mapping *)

\* C21: after any sequence of add_node and add_edge calls, failed ones
\* included, START and END are keys of the mapping and every node of every
\* outgoing edge list is a key of the mapping.
C21_EdgesStayInsideKeys ==
    /\ {START, END} \subseteq DOMAIN edges
    /\ \A n \in DOMAIN edges : Range(edges[n]) \subseteq DOMAIN edges

\* An add_edge call that named an unregistered node raised after it had
\* appended an edge
C21_Witness ==
    /\ last.op = "add_edge"
    /\ last.err = "ValueError"
    /\ edges # last.before
    /\ ncalls >= 3

\* C22: after any sequence of add_node and add_edge calls START is the
\* destination of no edge and END has no outgoing edge.
C22_StartEndSealed ==
    /\ \A n \in DOMAIN edges : START \notin Range(edges[n])
    /\ edges[END] = <<>>

----------------------------------------------------------------------------
(* Memory used by a caller *)

\* The add calls made before the latest query, with the content recorded
HeldHops ==
    [k \in 1..query.at |->
        [author |-> held.added[k].author,
         recipient |-> held.added[k].recipient,
         content |-> held.records[k].content]]

\* The record Memory stores for an add call
RecordOf(h) ==
    [author |-> name[h.author], recipient |-> name[h.recipient],
     content |-> h.content]

RECURSIVE RecordsOf(_)
RecordsOf(hs) ==
    IF hs = <<>> THEN <<>> ELSE <<RecordOf(Head(hs))>> \o RecordsOf(Tail(hs))

ByNode(h) ==
    h.author \in Range(query.author) /\ h.recipient \in Range(query.recipient)

ByName(h) ==
    /\ name[h.author] \in PeerNames(query.author)
    /\ name[h.recipient] \in PeerNames(query.recipient)

----------------------------------------------------------------------------
(* The thinking flag, routing, the arguments of a node invocation *)

\* What the invocation of the current node gives when Graph.invoke was called
\* with the flag thinking and the remote model answers reply
StepView(thinking, reply) ==
    LET options == edges[curr_node]
        text == WithSharedMemory(prompt, global_memory,
                                 shared_memory[curr_node])
        inv == AgentInvoke(curr_node,
                           GraphCallArgs(author, text, options, thinking),
                           reply)
    IN  [exc |-> inv.exc, value |-> inv.value, messages |-> inv.messages,
         remote |-> inv.remote]

\* C24: show_thinking does not influence execution: at every node invocation
\* of a run the outcome (the answer or the exception, and the node's history)
\* is the one the other value of the flag gives for the same model output,
\* so the nodes visited, the histories, the memory and the result are the
\* same.
C24_ThinkingFlagInert ==
    /\ []((pc = "loop" /\ IsAgent(curr_node))
             => \A reply \in Replies :
                   StepView(TRUE, reply) = StepView(FALSE, reply))
    /\ [][(pc = "loop" /\ IsAgent(curr_node) /\ Len(calls') = Len(calls) + 1)
             => \E reply \in Replies :
                   LET v == StepView(~show_thinking, reply)
                       c == calls'[Len(calls')]
                   IN  /\ c.exc = v.exc
                       /\ c.value = v.value
                       /\ messages'[curr_node] = v.messages]_vars

\* A run called with show_thinking true returned after two invocations
C24_Witness ==
    /\ show_thinking
    /\ pc = "idle"
    /\ Len(calls) = 2
    /\ result.kind = "return"
    /\ calls[1].args.edges = PyBool(TRUE)

\* C25: when a node with two or more outgoing edges answers with a command
\* whose name is the name of none of its destinations and is not END, the
\* first edge is followed and the answer is passed on unmodified, the
\* unmatched command included.
C25_UnmatchedCommandKept ==
    [][\A n \in CommandNames :
          (/\ NodeAnswered
           /\ Len(edges[curr_node]) >= 2
           /\ FirstCommandIs(calls'[Len(calls')].value, n)
           /\ n # ENDLiteral
           /\ \A j \in 1..Len(edges[curr_node]) :
                 CommandNameOf(edges[curr_node][j]) # n)
          => Advanced(edges[curr_node][1], calls'[Len(calls')].value)]_vars

\* The ways to read text as: a piece without backslash, the command \\n\\,
\* a rest that holds at least one more command
SeveralSplits(text, n) ==
    {i \in FirstSplits(text, n) :
        \E m \in CommandNames :
           \E j \in (i + Len(Cmd(n)) + 1)..(Len(text) - Len(Cmd(m)) + 1) :
              SubSeq(text, j, j + Len(Cmd(m)) - 1) = Cmd(m)}

\* C26: when the answer of a node with two or more outgoing edges, given to
\* _get_route, holds several delimited commands, the first one decides the
\* route (the first destination of that name, END for the END command, the
\* first edge when it names no destination) and the text returned is the
\* text given with that first command and its delimiters cut out, everything
\* else in place.
C26_FirstCommandOnly ==
    \A n \in CommandNames :
        (/\ route.n > 0
         /\ Len(route.options) >= 2
         /\ NoBackslash(n)
         /\ SeveralSplits(route.given, n) # {})
           => LET options == route.options
                  named == {j \in 1..Len(options) : CommandNameOf(options[j]) = n}
                  first == IF named = {} THEN 1
                           ELSE CHOOSE j \in named : \A k \in named : j <= k
              IN  /\ ~route.raised
                  /\ route.i + 1 = first
                  /\ route.output = Without(route.given, n)

\* C27: at every node invocation of Graph.invoke the node receives the
\* current node's outgoing edge list, in registration order, as its routing
\* context (the parameter edges) and show_thinking as its thinking flag; the
\* edge list is bound to no other parameter.
C27_EdgesBoundToEdges ==
    \A k \in 1..Len(calls) :
        /\ calls[k].args.edges = PyList(edges[calls[k].node])
        /\ calls[k].args.show_thinking = show_thinking
        /\ calls[k].args.files = <<>>

\* C28: the prompt entry a node's invoke appends to its history carries a
\* routing part made from the edge list it was given: with two or more
\* destinations, one selectable command per destination, in order, with the
\* destination's name between the delimiters and its description (END under
\* the name END with the fixed description); with exactly one destination,
\* the disclosure of that destination alone and no command to choose.
C28_RoutingPartListsDestinations ==
    (direct.n > 0 /\ direct.remote)
        => LET list == direct.edges.items
               thread == messages[direct.node]
               part == thread[Len(thread)].content.routing_options
               shown(d) == IF d = END THEN <<"E", "N", "D">> ELSE name[d]
               described(d) ==
                   IF d = END
                   THEN "The end of the graph, to return the final response to the user."
                   ELSE <<"description", d>>
           IN  IF Len(list) >= 2
               THEN /\ part.kind = "options"
                    /\ Len(part.items) = Len(list)
                    /\ \A i \in 1..Len(list) :
                          /\ part.items[i].command =
                                <<"\\", "\\">> \o shown(list[i]) \o <<"\\", "\\">>
                          /\ part.items[i].description = described(list[i])
               ELSE /\ Len(list) = 1
                    /\ part.kind = "disclosure"
                    /\ part.items = <<[command |-> shown(list[1]),
                                       description |-> described(list[1])]>>

\* a1 was invoked with the destinations [a2, END] and its history ends with a
\* prompt entry offering two commands, the second one for END
C28_Witness ==
    /\ direct.n > 0
    /\ direct.remote
    /\ direct.node = "a1"
    /\ direct.edges = PyList(<<"a2", END>>)
    /\ LET thread == messages["a1"]
       IN  /\ thread[Len(thread)].content.routing_options.kind = "options"
           /\ Len(thread[Len(thread)].content.routing_options.items) = 2

----------------------------------------------------------------------------
(* The records of a run *)

\* Graph.invoke has returned to its caller (with a value or with None)
InvokeReturned == pc = "idle" /\ result.kind \in {"return", "return_none"}

\* The record of the hop the walk has just made, from the node invoked in
\* this step to the node it is at afterwards, with the text it passes on
HopRecord ==
    [author |-> name[curr_node], recipient |-> name[curr_node'],
     content |-> prompt']

\* An iteration of the loop appends the record of its hop when the walk goes
\* on to a node, and leaves the memory as it is when it returns or raises;
\* no step outside a run touches the memory
RecordPerHop ==
    /\ [][pc = "loop" /\ pc' = "loop"
            => global_memory' = Append(global_memory, HopRecord)]_vars
    /\ [][pc = "loop" /\ pc' # "loop"
            => global_memory' = global_memory]_vars
    /\ [][pc = "idle" /\ ~InvokeCalled
            => global_memory' = global_memory]_vars

\* The memory holds one record per hop between two invocations, in order
RecordsInHopOrder ==
    /\ Len(global_memory) = Len(calls) - 1
    /\ \A k \in 1..Len(global_memory) :
          /\ global_memory[k].author = name[calls[k].node]
          /\ global_memory[k].recipient = name[calls[k + 1].node]
          /\ global_memory[k].content = hops[k].content

\* C29 as stated: every hop to a node appends exactly its record (the names
\* of the node left and the node reached, the text without its routing
\* command), nothing else changes the memory of a run, and whenever invoke
\* has returned the memory holds one record less than nodes were invoked, in
\* hop order.
C29_RecordPerHopAlways ==
    /\ RecordPerHop
    /\ [](InvokeReturned => RecordsInHopOrder)

\* C29, amended: the same, the count at return being claimed for the runs
\* that invoked at least one node; a run that invoked none (the first edge of
\* START is END) returns with an empty memory.
C29_RecordPerHop ==
    /\ RecordPerHop
    /\ [](InvokeReturned /\ Len(calls) >= 1 => RecordsInHopOrder)
    /\ [](InvokeReturned /\ Len(calls) = 0 => global_memory = <<>>)

\* A run through a1, a2 and a3 has returned a3's answer; its memory holds
\* the two hops a1 -> a2 and a2 -> a3
C29_Witness ==
    /\ InvokeReturned
    /\ result.kind = "return"
    /\ Len(calls) = 3
    /\ Len(global_memory) = 2
    /\ global_memory[1].author = NameA
    /\ global_memory[2].recipient = NameC

----------------------------------------------------------------------------
(* The prompt handed from node to node *)

\* C30: the chat prompt of the first node invocation of a run is the user
\* prompt and the chat prompt of every later one is the text recorded for the
\* hop that led to it (the previous node's output without its routing
\* command); the "Previous messages" header and the transcript of the run so
\* far follow it if and only if the invoked node has shared-memory peers, so
\* nothing appended for an earlier node is found in a later node's prompt.
C30_PromptIsPreviousOutput ==
    \A k \in 1..Len(calls) :
        LET given == calls[k].args.prompt
            previous == IF k = 1 THEN CHOOSE p \in UserPrompts : TRUE
                        ELSE global_memory[k - 1].content
            peers == shared_memory[calls[k].node]
            sofar == SubSeq(global_memory, 1, k - 1)
        IN  IF peers = <<>>
            THEN given = previous
            ELSE given = previous \o PrevHeader
                            \o MemoryGetFormatted(sofar, peers, peers)

\* a1, which has peers, was invoked first with the user prompt and the
\* header; a2, which has none, was invoked second with a1's answer alone
C30_Witness ==
    /\ Len(calls) >= 2
    /\ calls[1].node = "a1"
    /\ shared_memory["a1"] # <<>>
    /\ calls[1].args.prompt = <<"q">> \o PrevHeader
    /\ calls[2].node = "a2"
    /\ shared_memory["a2"] = <<>>
    /\ calls[2].args.prompt = calls[1].value
    /\ calls[1].value = OPlain

----------------------------------------------------------------------------
(* The history of a node over the caller's invocations *)

\* This step is an invocation that got as far as asking the remote model
\* (which answered or failed)
AskedRemote == DirectCalled /\ direct'.remote

C32_ReplyKeptInHistory ==
    (direct.n > 0 /\ ~direct.double /\ direct.exc = "none")
        => LET thread == messages[direct.node]
           IN  /\ Len(thread) = Len(direct.before) + 2
               /\ thread[Len(thread)].role = "assistant"

----------------------------------------------------------------------------
(* One node and one edge per step *)

\* C33: every iteration of the loop of Graph.invoke invokes the current node
\* and no other, and then either ends the run or moves to one node of the
\* current node's edge list, recording that single hop; the iteration leaves
\* the history of every other node and every edge list as they were, and so
\* does the call of Graph.invoke itself, hence the whole run.
C33_OneNodeOneEdge ==
    /\ [][pc = "loop"
            => /\ Len(calls') = Len(calls) + 1
               /\ SubSeq(calls', 1, Len(calls)) = calls
               /\ calls'[Len(calls')].node = curr_node
               /\ edges' = edges
               /\ \A a \in Agents \ {curr_node} : messages'[a] = messages[a]
               /\ IF pc' = "loop"
                  THEN /\ \E i \in 1..Len(edges[curr_node]) :
                              curr_node' = edges[curr_node][i]
                       /\ Len(hops') = Len(hops) + 1
                  ELSE /\ curr_node' = curr_node
                       /\ hops' = hops]_vars
    /\ [][InvokeCalled => (edges' = edges /\ messages' = messages)]_vars

\* a1, which has several outgoing edges, was invoked and then a2 alone; the
\* run returned after these two invocations and one hop
C33_Witness ==
    /\ pc = "idle"
    /\ result.kind = "return"
    /\ Len(calls) = 2
    /\ calls[1].node = "a1"
    /\ Len(edges["a1"]) >= 2
    /\ calls[2].node = "a2"
    /\ Len(hops) = 1

----------------------------------------------------------------------------
(* Where the walk begins *)

\* C34: a call of Graph.invoke on a graph with registered agents and at
\* least one edge out of START sets out at the first destination of START:
\* the first node invoked in the run is that destination (none is invoked
\* when it is END), whatever other destinations START has.
C34_WalkBeginsAtFirstStartEdge ==
    /\ [][(InvokeCalled /\ Cardinality(DOMAIN edges) > 2
                        /\ edges[START] # <<>>)
            => /\ curr_node' = edges[START][1]
               /\ calls' = <<>>
               /\ (edges[START][1] = END => pc' = "idle")]_vars
    /\ [][(pc = "loop" /\ calls = <<>>)
            => (calls' # <<>> /\ calls'[1].node = edges[START][1])]_vars

\* START has the destinations a1 and a2; two runs were made and the second
\* has begun at a1 like the first
C34_Witness ==
    /\ edges[START] = <<"a1", "a2">>
    /\ nruns = 2
    /\ calls # <<>>
    /\ calls[1].node = "a1"
    /\ calls[1].exc = "none"

----------------------------------------------------------------------------
(* Repeated edges *)

\* The destinations of n are one node written at least twice
RepeatedEdge(n) ==
    /\ Len(edges[n]) >= 2
    /\ \A i \in 1..Len(edges[n]) : edges[n][i] = edges[n][1]

\* C35: add_edge(a, b) on registered nodes a # b appends b to a's list
\* whether b is in it already or not, so after two such calls b is there
\* twice; a node whose destinations are one node written twice is routed like
\* any node with several edges: an answer holding a command is not passed on
\* as it is, the walk goes on to that one destination with the first command
\* cut out (or the run raises where the END command finds no END edge).
C35_RepeatedEdgeIsRouted ==
    /\ []((/\ last.op = "add_edge"
           /\ last.err = "none"
           /\ ~last.node1.list /\ ~last.node2.list
           /\ last.node1.items[1] # last.node2.items[1])
             => edges[last.node1.items[1]]
                    = Append(last.before[last.node1.items[1]],
                             last.node2.items[1]))
    /\ [][(NodeAnswered /\ RepeatedEdge(curr_node))
            => LET out == calls'[Len(calls')].value
               IN  \A n \in CommandNames :
                      FirstCommandIs(out, n)
                         => \/ Advanced(edges[curr_node][1], Without(out, n))
                            \/ /\ n = ENDLiteral
                               /\ edges[curr_node][1] # END
                               /\ pc' = "idle"
                               /\ result' = Raised("ValueError")]_vars

\* add_edge(a1, a2) was called twice; a1 answered "\\B\\2" and the walk is
\* at a2 with the prompt "2"
C35_Witness ==
    /\ "a1" \in DOMAIN edges
    /\ edges["a1"] = <<"a2", "a2">>
    /\ pc = "loop"
    /\ Len(calls) = 1
    /\ calls[1].node = "a1"
    /\ calls[1].value = OCmdB
    /\ curr_node = "a2"
    /\ prompt = <<"2">>

----------------------------------------------------------------------------
(* Dead ends *)

\* C36: a run never returns from a dead end: the iteration of the loop at a
\* registered node without outgoing edge ends the run with an exception,
\* whatever the node answers, and so does the call of Graph.invoke on a graph
\* with registered agents whose START has no outgoing edge; no result value
\* is returned in either case.
C36_DeadEndRaises ==
    /\ [][(pc = "loop" /\ IsAgent(curr_node) /\ edges[curr_node] = <<>>)
            => /\ pc' = "idle"
               /\ result'.kind = "raise"
               /\ result'.value = <<>>]_vars
    /\ [][(InvokeCalled /\ Cardinality(DOMAIN edges) > 2
                        /\ edges[START] = <<>>)
            => /\ pc' = "idle"
               /\ result' = Raised("IndexError")
               /\ calls' = <<>>]_vars

\* The walk went from a1 to a2, which has no outgoing edge; a2 answered and
\* the run ended with IndexError
C36_Witness ==
    /\ pc = "idle"
    /\ Len(calls) = 2
    /\ calls[2].node = "a2"
    /\ calls[2].exc = "none"
    /\ edges["a2"] = <<>>
    /\ result = Raised("IndexError")

----------------------------------------------------------------------------
(* What a failed remote call leaves behind *)

----------------------------------------------------------------------------
(* add_node on a list that holds a non-node *)

\* The position of the first element of items that is not an Agent
FirstNonAgent(items) ==
    CHOOSE k \in 1..Len(items) :
        /\ items[k] \notin Agents
        /\ \A i \in 1..(k - 1) : items[i] \in Agents

\* C38: when add_node is given a list with an element that is not an Agent,
\* it raises with the Agents in front of that element registered, each with
\* an empty edge list (a list they had before is lost), while that element
\* is not registered and every other node, the Agents behind it included, is
\* registered or not, with the same edge list, as before the call.
C38_AddNodeListNotAtomic ==
    (/\ last.op = "add_node"
     /\ last.node1.list
     /\ \E i \in 1..Len(last.node1.items) : last.node1.items[i] \notin Agents)
        => LET items == last.node1.items
               k == FirstNonAgent(items)
               front == {items[i] : i \in 1..(k - 1)}
           IN  /\ last.err # "none"
               /\ \A n \in front : n \in DOMAIN edges /\ edges[n] = <<>>
               /\ items[k] \notin DOMAIN edges
               /\ \A n \in Nodes \ front :
                     /\ n \in DOMAIN edges <=> n \in DOMAIN last.before
                     /\ n \in DOMAIN edges => edges[n] = last.before[n]

\* a1 had the edge to END; add_node([a1, junk, a2]) raised, a1 is left with
\* no edge and a2 is not registered
C38_Witness ==
    /\ last.op = "add_node"
    /\ last.node1 = List(<<"a1", NonAgent, "a2">>)
    /\ last.err = "ValueError"
    /\ "a1" \in DOMAIN last.before
    /\ last.before["a1"] = <<END>>
    /\ edges["a1"] = <<>>
    /\ "a2" \notin DOMAIN edges

====
